---- MODULE Spec2Model ----
(***************************************************************************)
(* Model of caspar::frame_muxer (modules/ffmpeg/producer/frame_muxer.cpp). *)
(*                                                                         *)
(* The muxer receives decoded video pictures and audio sample chunks,      *)
(* buffers them in per-medium segment lists (a segment is the run between  *)
(* two reset markers) and combines them into output frames according to a  *)
(* display mode (cadence policy) resolved on the first real picture.       *)
(*                                                                         *)
(* Every public operation (push video, push audio, pop) is one action that *)
(* models the whole handler, the pump (put_frames) included.               *)
(***************************************************************************)
EXTENDS Integers, Sequences, FiniteSets, TLC

\* ------------------------------------------------------------------ bounds
\* format_desc_.audio_samples_per_frame, scaled down.
Spf == 2
\* Most pictures pushed in one run.
MaxPictures == 2
\* Most reset markers pushed on one side.
MaxResets == 2
\* Most pictures the deinterlace filter yields for one input picture.
MaxFilterOut == 2

\* Most samples pushed in one run: two frames' worth.
MaxSamples == 2 * Spf
\* The sizes of a pushed chunk: one sample short of a frame's worth, a frame's
\* worth, two frames' worth.
ChunkSizes == {Spf - 1, Spf, 2 * Spf}

\* ---------------------------------------------------------- configuration
Progressive == "progressive"
Upper == "upper"
\* Scan modes of pictures and of the target format. Lower-field-first differs from
\* upper-field-first only in the fill translation of the picture, which no
\* operation below reads.
VideoModes == {Progressive, Upper}

\* (source rate, target rate) pairs the instance may be configured with.
RatePairs == {<<25, 25>>, <<50, 25>>, <<25, 50>>}
\* The configurations of an instance: [auto, in_fps, mode, fps]. With automatic
\* detection off neither the rates nor the target mode are read, so one such
\* configuration stands for all of them.
Configs ==
    {[auto |-> TRUE, in_fps |-> r[1], fps |-> r[2], mode |-> m] : r \in RatePairs, m \in VideoModes}
    \cup {[auto |-> FALSE, in_fps |-> 25, fps |-> 25, mode |-> Progressive]}
PictureHeights == {576, 1080}

VARIABLES
    video_streams_,        \* deque of queues of pictures
    audio_streams_,        \* deque of sample vectors
    frame_buffer_,         \* deque of output frames
    display_mode_,
    in_fps_,
    format_desc_,          \* [mode, fps, height]
    auto_mode_,
    audio_sample_count_,
    video_frame_count_,
    filter_,
    video_discarded,       \* history: number of video segments popped from the front
    audio_discarded,       \* history: number of audio segments popped from the front
    real_admitted,         \* history: a real picture has been admitted
    pictures_pushed,       \* history: pictures enqueued so far
    samples_pushed,        \* history: samples appended so far
    last                   \* history: what the last operation did

vars == <<video_streams_, audio_streams_, frame_buffer_, display_mode_, in_fps_,
          format_desc_, auto_mode_, audio_sample_count_, video_frame_count_, filter_,
          video_discarded, audio_discarded, real_admitted, pictures_pushed, samples_pushed,
          last>>

config == <<in_fps_, format_desc_, auto_mode_>>

\* ------------------------------------------------------------ display_mode
\* enum display_mode::type
display_mode == [simple |-> "simple", duplicate |-> "duplicate", half |-> "half",
                 interlace |-> "interlace", deinterlace_bob |-> "deinterlace_bob",
                 deinterlace_bob_reinterlace |-> "deinterlace_bob_reinterlace",
                 deinterlace |-> "deinterlace", invalid |-> "invalid"]

Abs(x) == IF x < 0 THEN -x ELSE x

\* static const auto epsilon = 2.0
epsilon == 2

\* Mutant of get_display_mode: the tolerance comparisons are <= instead of <.
get_display_mode_inclusive(in_mode, in_fps, out_mode, out_fps) ==
    IF Abs(in_fps - out_fps) <= epsilon
    THEN IF in_mode # Progressive /\ out_mode = Progressive
         THEN display_mode.deinterlace
         ELSE display_mode.simple
    ELSE IF Abs(in_fps - 2 * out_fps) <= 2 * epsilon
    THEN IF in_mode # Progressive
         THEN display_mode.invalid
         ELSE IF out_mode # Progressive
              THEN display_mode.interlace
              ELSE display_mode.half
    ELSE IF Abs(2 * in_fps - out_fps) <= 2 * epsilon
    THEN IF out_mode # Progressive
         THEN display_mode.invalid
         ELSE IF in_mode # Progressive
              THEN display_mode.deinterlace_bob
              ELSE display_mode.duplicate
    ELSE display_mode.invalid

\* get_display_mode: rates are whole fps; in_fps/2.0 - out_fps is compared after
\* multiplying both sides by 2, which is exact.
get_display_mode(in_mode, in_fps, out_mode, out_fps) ==
    IF Abs(in_fps - out_fps) < epsilon
    THEN IF in_mode # Progressive /\ out_mode = Progressive
         THEN display_mode.deinterlace
         ELSE display_mode.simple
    ELSE IF Abs(in_fps - 2 * out_fps) < 2 * epsilon
    THEN IF in_mode # Progressive
         THEN display_mode.invalid
         ELSE IF out_mode # Progressive
              THEN display_mode.interlace
              ELSE display_mode.half
    ELSE IF Abs(2 * in_fps - out_fps) < 2 * epsilon
    THEN IF out_mode # Progressive
         THEN display_mode.invalid
         ELSE IF in_mode # Progressive
              THEN display_mode.deinterlace_bob
              ELSE display_mode.duplicate
    ELSE display_mode.invalid

\* ------------------------------------------------------------ sequences
Min(a, b) == IF a < b THEN a ELSE b
Take(q, n) == SubSeq(q, 1, Min(n, Len(q)))
Drop(q, n) == SubSeq(q, Min(n, Len(q)) + 1, Len(q))
SetFront(q, x) == <<x>> \o Tail(q)
SetBack(q, x) == SubSeq(q, 1, Len(q) - 1) \o <<x>>
Back(q) == q[Len(q)]

\* ------------------------------------------------------- the mutable state
\* The operators below work on a record of the fields a push changes:
\*   vs, as, fb   video_streams_, audio_streams_, frame_buffer_
\*   vfc, asc     video_frame_count_, audio_sample_count_
\*   vdis, adis   segments discarded from the front of each side
\*   log          one entry per pump attempt of this operation
\*   thrown       invalid_operation was thrown
\*   verify_failed, ub   CASPAR_VERIFY failed / front() of an empty queue
Cur == [vs |-> video_streams_, as |-> audio_streams_, fb |-> frame_buffer_,
        vfc |-> video_frame_count_, asc |-> audio_sample_count_,
        vdis |-> video_discarded, adis |-> audio_discarded,
        log |-> <<>>, thrown |-> FALSE, verify_failed |-> FALSE, ub |-> FALSE]

\* A picture is identified by the video segment it was pushed into and its number
\* in that segment (video_frame_count_ when it was pushed).
Picture(s) == [seg |-> s.vdis + Len(s.vs) - 1, n |-> s.vfc]
NoPicture == [seg |-> -1, n |-> -1]

\* The samples of one chunk: the audio segment they were pushed into and their
\* position in that segment.
Samples(s, size) == [i \in 1..size |-> [seg |-> s.adis + Len(s.as) - 1, n |-> s.asc + i - 1]]

\* ------------------------------------------------------------- pop helpers
pop_video_frame(s) == IF Head(s.vs) = <<>> THEN NoPicture ELSE Head(Head(s.vs))

pop_video(s) ==
    IF Head(s.vs) = <<>>
    THEN [s EXCEPT !.ub = TRUE]
    ELSE [s EXCEPT !.vs = SetFront(@, Tail(Head(@)))]

\* Mutant of pop_audio_samples: the end iterator is one sample short.
pop_audio_samples_short(s) == Take(Head(s.as), Spf - 1)

pop_audio_samples(s) == Take(Head(s.as), Spf)

\* Mutant of pop_audio: the erased range is one sample short.
pop_audio_erase_short(s) ==
    [s EXCEPT !.as = SetFront(@, Drop(Head(@), Spf - 1)),
              !.verify_failed = @ \/ Len(Head(s.as)) < Spf]

pop_audio(s) ==
    [s EXCEPT !.as = SetFront(@, Drop(Head(@), Spf)),
              !.verify_failed = @ \/ Len(Head(s.as)) < Spf]

\* ---------------------------------------------------------------- combiners
OutputFrame(pics, audio, copy) == [pics |-> pics, audio |-> audio, copy |-> copy]

\* core::basic_frame::interlace(frame1, frame2, mode): one composite frame of the
\* two pictures, carrying frame1's audio.
interlace_frames(p1, audio, p2) == OutputFrame(<<p1, p2>>, audio, FALSE)

simple(s) ==
    IF Head(s.vs) = <<>> \/ Len(Head(s.as)) < Spf
    THEN s
    ELSE LET frame1 == OutputFrame(<<pop_video_frame(s)>>, pop_audio_samples(s), FALSE)
             s1 == pop_audio(pop_video(s))
         IN  [s1 EXCEPT !.fb = Append(@, frame1)]

\* Mutant of duplicate: the original is emitted before the copy.
duplicate_original_first(s) ==
    IF Head(s.vs) = <<>> \/ (Len(Head(s.as)) \div 2) < Spf
    THEN s
    ELSE LET s1 == pop_video(s)
             frame1 == OutputFrame(<<pop_video_frame(s)>>, pop_audio_samples(s1), TRUE)
             s2 == pop_audio(s1)
             frame2 == OutputFrame(<<pop_video_frame(s)>>, pop_audio_samples(s2), FALSE)
             s3 == pop_audio(s2)
         IN  [s3 EXCEPT !.fb = @ \o <<frame2, frame1>>]

\* Mutant of duplicate: the guard asks for one frame's worth of samples only.
duplicate_one_chunk_guard(s) ==
    IF Head(s.vs) = <<>> \/ Len(Head(s.as)) < Spf
    THEN s
    ELSE LET s1 == pop_video(s)
             frame1 == OutputFrame(<<pop_video_frame(s)>>, pop_audio_samples(s1), TRUE)
             s2 == pop_audio(s1)
             frame2 == OutputFrame(<<pop_video_frame(s)>>, pop_audio_samples(s2), FALSE)
             s3 == pop_audio(s2)
         IN  [s3 EXCEPT !.fb = @ \o <<frame1, frame2>>]

duplicate(s) ==
    IF Head(s.vs) = <<>> \/ (Len(Head(s.as)) \div 2) < Spf
    THEN s
    ELSE LET s1 == pop_video(s)
             frame1 == OutputFrame(<<pop_video_frame(s)>>, pop_audio_samples(s1), TRUE)
             s2 == pop_audio(s1)
             frame2 == OutputFrame(<<pop_video_frame(s)>>, pop_audio_samples(s2), FALSE)
             s3 == pop_audio(s2)
         IN  [s3 EXCEPT !.fb = @ \o <<frame1, frame2>>]

\* Mutant of half: one buffered picture is taken to be enough.
half_one_picture_enough(s) ==
    IF Head(s.vs) = <<>> \/ Len(Head(s.as)) < Spf
    THEN s
    ELSE LET frame1 == OutputFrame(<<pop_video_frame(s)>>, pop_audio_samples(s), FALSE)
             s1 == pop_audio(pop_video(s))
             s2 == pop_video(s1)
         IN  [s2 EXCEPT !.fb = Append(@, frame1)]

\* Mutant of half: the second picture is left in the queue.
half_keeps_second(s) ==
    IF Len(Head(s.vs)) < 2 \/ Len(Head(s.as)) < Spf
    THEN s
    ELSE LET frame1 == OutputFrame(<<pop_video_frame(s)>>, pop_audio_samples(s), FALSE)
             s1 == pop_audio(pop_video(s))
         IN  [s1 EXCEPT !.fb = Append(@, frame1)]

half(s) ==
    IF Len(Head(s.vs)) < 2 \/ Len(Head(s.as)) < Spf
    THEN s
    ELSE LET frame1 == OutputFrame(<<pop_video_frame(s)>>, pop_audio_samples(s), FALSE)
             s1 == pop_audio(pop_video(s))
             s2 == pop_video(s1)
         IN  [s2 EXCEPT !.fb = Append(@, frame1)]

interlace(s) ==
    IF Len(Head(s.vs)) < 2 \/ Len(Head(s.as)) < Spf
    THEN s
    ELSE LET s1 == pop_audio(pop_video(s))
             s2 == pop_video(s1)
         IN  [s2 EXCEPT !.fb = Append(@, interlace_frames(pop_video_frame(s),
                                                          pop_audio_samples(s),
                                                          pop_video_frame(s1)))]

\* -------------------------------------------------------------------- pump
\* What the first statement of a pump did: whether it dropped the oldest pair,
\* whether it logged the "Truncating" message, and whether the dropped video and
\* audio segments still held data.
NoTruncation == [dropped |-> FALSE, warned |-> FALSE, vleft |-> FALSE, aleft |-> FALSE]

\* put_frames, first statement: the oldest pair is dropped when both sides hold
\* more than one segment and either oldest segment is empty.
TruncateNeeded(s) ==
    Len(s.vs) > 1 /\ Len(s.as) > 1 /\ (Head(s.vs) = <<>> \/ Head(s.as) = <<>>)

\* Mutant of TruncateLog: the message is logged on every drop.
TruncateLog_always_warns(s) ==
    IF TruncateNeeded(s)
    THEN [dropped |-> TRUE, warned |-> TRUE,
          vleft |-> Head(s.vs) # <<>>, aleft |-> Head(s.as) # <<>>]
    ELSE NoTruncation

TruncateLog(s) ==
    IF TruncateNeeded(s)
    THEN [dropped |-> TRUE,
          warned |-> (Head(s.vs) # <<>> \/ Head(s.as) # <<>>),
          vleft |-> Head(s.vs) # <<>>, aleft |-> Head(s.as) # <<>>]
    ELSE NoTruncation

\* Mutant of Truncate: only the video side is popped.
Truncate_video_only(s) ==
    IF TruncateNeeded(s)
    THEN [s EXCEPT !.vs = Tail(@), !.vdis = @ + 1]
    ELSE s

Truncate(s) ==
    IF TruncateNeeded(s)
    THEN [s EXCEPT !.vs = Tail(@), !.as = Tail(@), !.vdis = @ + 1, !.adis = @ + 1]
    ELSE s

\* Mutant of Dispatch: the default arm falls back to simple.
Dispatch_fallback(s, mode) ==
    CASE mode = display_mode.duplicate -> duplicate(s)
      [] mode = display_mode.half -> half(s)
      [] mode \in {display_mode.interlace, display_mode.deinterlace_bob_reinterlace} -> interlace(s)
      [] OTHER -> simple(s)

\* put_frames, the switch on display_mode_.
Dispatch(s, mode) ==
    CASE mode = display_mode.simple -> simple(s)
      [] mode = display_mode.duplicate -> duplicate(s)
      [] mode = display_mode.half -> half(s)
      [] mode = display_mode.interlace -> interlace(s)
      [] mode = display_mode.deinterlace_bob -> simple(s)
      [] mode = display_mode.deinterlace_bob_reinterlace -> interlace(s)
      [] mode = display_mode.deinterlace -> simple(s)
      [] OTHER -> [s EXCEPT !.thrown = TRUE]

\* Mutant of put_frames: the combiner is invoked a second time on what is left.
put_frames_twice(s, mode) ==
    LET entry == TruncateLog(s)
        s1 == Truncate(s)
        reached == ~(Head(s1.vs) = <<>> \/ Len(Head(s1.as)) < Spf)
        s2 == IF reached THEN Dispatch(Dispatch(s1, mode), mode) ELSE s1
    IN  [s2 EXCEPT !.log = Append(@, entry @@
            [dispatched |-> IF reached THEN mode ELSE "none",
             vq |-> Len(Head(s1.vs)), aq |-> Len(Head(s1.as)),
             emitted |-> Len(s2.fb) - Len(s1.fb),
             vpopped |-> Len(Head(s1.vs)) - Len(Head(s2.vs)),
             apopped |-> Len(Head(s1.as)) - Len(Head(s2.as))])]

\* The log entry of a pump also holds the display mode it dispatched on ("none"
\* when it returned at the backpressure check), the sizes of the oldest segments
\* after the alignment step (vq pictures, aq samples), and what the pump then
\* appended to the output queue and removed from the oldest segments.
put_frames(s, mode) ==
    LET entry == TruncateLog(s)
        s1 == Truncate(s)
        reached == ~(Head(s1.vs) = <<>> \/ Len(Head(s1.as)) < Spf)
        s2 == IF reached THEN Dispatch(s1, mode) ELSE s1
    IN  [s2 EXCEPT !.log = Append(@, entry @@
            [dispatched |-> IF reached THEN mode ELSE "none",
             vq |-> Len(Head(s1.vs)), aq |-> Len(Head(s1.as)),
             emitted |-> Len(s2.fb) - Len(s1.fb),
             vpopped |-> Len(Head(s1.vs)) - Len(Head(s2.vs)),
             apopped |-> Len(Head(s1.as)) - Len(Head(s2.as))])]

\* ------------------------------------------------------------------ pushes
\* One picture enqueued into the current video segment, followed by a pump.
PushPicture(s, mode) ==
    put_frames([s EXCEPT !.vs = SetBack(@, Append(Back(@), Picture(s))),
                         !.vfc = @ + 1], mode)

\* BOOST_FOREACH over the filter's output: n pictures, a pump after each; an
\* exception thrown by a pump leaves the loop.
RECURSIVE PushPictures(_, _, _)
PushPictures(s, n, mode) ==
    IF n = 0 \/ s.thrown
    THEN s
    ELSE PushPictures(PushPicture(s, mode), n - 1, mode)

\* Mutant of ResolveMode: the height of the picture is not compared.
ResolveMode_no_override(in_mode, height) ==
    IF auto_mode_
    THEN get_display_mode(in_mode, in_fps_, format_desc_.mode, format_desc_.fps)
    ELSE display_mode.simple

\* The display mode assigned on a real picture while display_mode_ is invalid.
ResolveMode(in_mode, height) ==
    IF auto_mode_
    THEN LET m == get_display_mode(in_mode, in_fps_, format_desc_.mode, format_desc_.fps)
         IN  IF m = display_mode.simple /\ in_mode # Progressive
                /\ format_desc_.mode # Progressive /\ height # format_desc_.height
             THEN display_mode.deinterlace_bob_reinterlace
             ELSE m
    ELSE display_mode.simple

\* The filter configured for a freshly resolved display mode.
ResolveFilter(mode) ==
    IF ~auto_mode_ THEN filter_
    ELSE IF mode = display_mode.deinterlace THEN "YADIF=0:-1"
    ELSE IF mode \in {display_mode.deinterlace_bob, display_mode.deinterlace_bob_reinterlace}
         THEN "YADIF=1:-1"
    ELSE filter_

\* filter::execute: the number of pictures it yields for one input picture.
FilterOut(f) == IF f = "" THEN {1} ELSE 0..MaxFilterOut

\* What an operation reports besides its pumps: whether the display mode was
\* assigned and, when get_display_mode ran for it (automatic detection on), on
\* which picture (scan mode, height); and the frame pop() returned.
NotResolved == [resolved |-> FALSE, in_mode |-> "none", height |-> 0]
Resolved(in_mode, height) ==
    IF auto_mode_
    THEN [resolved |-> TRUE, in_mode |-> in_mode, height |-> height]
    ELSE [resolved |-> TRUE, in_mode |-> "none", height |-> 0]
NoFrame == OutputFrame(<<>>, <<>>, FALSE)

Commit(s, res, returned) ==
    /\ video_streams_' = s.vs
    /\ audio_streams_' = s.as
    /\ frame_buffer_' = s.fb
    /\ video_frame_count_' = s.vfc
    /\ audio_sample_count_' = s.asc
    /\ video_discarded' = s.vdis
    /\ audio_discarded' = s.adis
    /\ last' = [pumps |-> s.log, thrown |-> s.thrown, resolved |-> res.resolved,
                in_mode |-> res.in_mode, height |-> res.height,
                verify_failed |-> s.verify_failed, ub |-> s.ub,
                returned |-> returned, query |-> "none", result |-> FALSE,
                count |-> 0]

\* push(video_frame) with video_frame == nullptr
PushVideoReset ==
    /\ video_discarded + Len(video_streams_) <= MaxResets
    /\ Commit([Cur EXCEPT !.vfc = 0, !.vs = Append(@, <<>>)], NotResolved, NoFrame)
    /\ UNCHANGED <<display_mode_, filter_, real_admitted, pictures_pushed, samples_pushed,
                   config>>

\* push(video_frame) with video_frame->data[0] == nullptr
PushVideoPlaceholder ==
    /\ pictures_pushed < MaxPictures
    /\ pictures_pushed' = pictures_pushed + 1
    /\ Commit(PushPicture(Cur, display_mode_), NotResolved, NoFrame)
    /\ UNCHANGED <<display_mode_, filter_, real_admitted, samples_pushed, config>>

\* The (scan mode, height) a pushed real picture may have. Both are read only
\* when get_display_mode runs on the picture, so one value stands for all of them
\* otherwise.
RealPictures ==
    IF display_mode_ = display_mode.invalid /\ auto_mode_
    THEN VideoModes \X PictureHeights
    ELSE {<<Progressive, 576>>}

\* push(video_frame) with a real picture
PushVideoReal ==
    \E pic \in RealPictures :
        LET in_mode == pic[1]
            height == pic[2]
            resolve == display_mode_ = display_mode.invalid
            mode == IF resolve THEN ResolveMode(in_mode, height) ELSE display_mode_
            f == IF resolve THEN ResolveFilter(mode) ELSE filter_
        IN  \E n \in FilterOut(f) :
                /\ pictures_pushed + n <= MaxPictures
                /\ pictures_pushed' = pictures_pushed + n
                /\ display_mode_' = mode
                /\ filter_' = f
                /\ real_admitted' = TRUE
                /\ Commit(PushPictures(Cur, n, mode),
                          IF resolve THEN Resolved(in_mode, height) ELSE NotResolved,
                          NoFrame)
                /\ UNCHANGED <<samples_pushed, config>>

\* push(audio_samples) with audio_samples == nullptr
PushAudioReset ==
    /\ audio_discarded + Len(audio_streams_) <= MaxResets
    /\ Commit([Cur EXCEPT !.as = Append(@, <<>>), !.asc = 0], NotResolved, NoFrame)
    /\ UNCHANGED <<display_mode_, filter_, real_admitted, pictures_pushed, samples_pushed,
                   config>>

\* push(audio_samples) with a chunk of samples
PushAudioChunk ==
    \E size \in ChunkSizes :
        /\ samples_pushed + size <= MaxSamples
        /\ samples_pushed' = samples_pushed + size
        /\ Commit(put_frames([Cur EXCEPT !.asc = @ + size,
                                         !.as = SetBack(@, Back(@) \o Samples(Cur, size))],
                             display_mode_),
                  NotResolved, NoFrame)
        /\ UNCHANGED <<display_mode_, filter_, real_admitted, pictures_pushed, config>>

\* Mutant of Pop: the newest frame is taken instead of the oldest.
Pop_back ==
    /\ frame_buffer_ # <<>>
    /\ Commit([Cur EXCEPT !.fb = SubSeq(@, 1, Len(@) - 1)], NotResolved,
              Back(frame_buffer_))
    /\ UNCHANGED <<display_mode_, filter_, real_admitted, pictures_pushed, samples_pushed,
                   config>>

\* pop(), called with a non-empty output queue
Pop ==
    /\ frame_buffer_ # <<>>
    /\ Commit([Cur EXCEPT !.fb = Tail(@)], NotResolved, Head(frame_buffer_))
    /\ UNCHANGED <<display_mode_, filter_, real_admitted, pictures_pushed, samples_pushed,
                   config>>

\* video_frames(): the pictures of the newest video segment
video_frames == Len(Back(video_streams_))

\* Mutant of audio_chunks: the sample count is not divided by the frame's worth.
audio_chunks_undivided == Len(Back(audio_streams_))

\* audio_chunks(): the whole frames' worth of samples of the newest audio segment
audio_chunks == Len(Back(audio_streams_)) \div Spf

video_ready == video_frames > 1 /\ Len(video_streams_) >= Len(audio_streams_)

audio_ready == audio_chunks > 1 /\ Len(audio_streams_) >= Len(video_streams_)

size == Len(frame_buffer_)

\* A const member function returned: the value is recorded, nothing is assigned.
Observed(query, result, count) ==
    /\ last' = [last EXCEPT !.query = query, !.result = result, !.count = count]
    /\ UNCHANGED <<video_streams_, audio_streams_, frame_buffer_, display_mode_, filter_,
                   audio_sample_count_, video_frame_count_, video_discarded,
                   audio_discarded, real_admitted, pictures_pushed, samples_pushed,
                   config>>

QueryVideoReady == Observed("video_ready", video_ready, 0)

\* Mutant of QueryAudioReady: the query pumps before it answers.
QueryAudioReady_pumps ==
    LET s == put_frames([Cur EXCEPT !.log = <<>>], display_mode_)
    IN  /\ ~s.thrown
        /\ last' = [last EXCEPT !.query = "audio_ready",
                                !.result = Len(Back(s.as)) \div Spf > 1
                                           /\ Len(s.as) >= Len(s.vs),
                                !.count = 0]
        /\ video_streams_' = s.vs
        /\ audio_streams_' = s.as
        /\ frame_buffer_' = s.fb
        /\ video_discarded' = s.vdis
        /\ audio_discarded' = s.adis
        /\ UNCHANGED <<display_mode_, filter_, audio_sample_count_, video_frame_count_,
                       real_admitted, pictures_pushed, samples_pushed, config>>

QueryAudioReady == Observed("audio_ready", audio_ready, 0)

QuerySize == Observed("size", FALSE, size)

QueryEmpty == Observed("empty", size = 0, 0)

\* The state after construction, for a configuration drawn from cs.
InitFrom(cs) ==
    /\ video_streams_ = << <<>> >>
    /\ audio_streams_ = << <<>> >>
    /\ frame_buffer_ = <<>>
    /\ display_mode_ = display_mode.invalid
    /\ \E c \in cs :
          /\ in_fps_ = c.in_fps
          /\ format_desc_ = [mode |-> c.mode, fps |-> c.fps, height |-> 576]
          /\ auto_mode_ = c.auto
    /\ pictures_pushed = 0
    /\ samples_pushed = 0
    /\ audio_sample_count_ = 0
    /\ video_frame_count_ = 0
    /\ filter_ = ""
    /\ video_discarded = 0
    /\ audio_discarded = 0
    /\ real_admitted = FALSE
    /\ last = [pumps |-> <<>>, thrown |-> FALSE, resolved |-> FALSE,
               in_mode |-> "none", height |-> 0,
               verify_failed |-> FALSE, ub |-> FALSE,
               returned |-> NoFrame, query |-> "none", result |-> FALSE,
               count |-> 0]

Init == InitFrom(Configs)

Next ==
    \/ PushVideoReset
    \/ PushVideoPlaceholder
    \/ PushVideoReal
    \/ PushAudioReset
    \/ PushAudioChunk
    \/ Pop

Spec == Init /\ [][Next]_vars

\* The muxer with its caller also asking the readiness and size queries.
ObserverConfigs == {c \in Configs : ~c.auto}

ObserverInit == InitFrom(ObserverConfigs)

ObserverNext ==
    \/ Next
    \/ QueryVideoReady
    \/ QueryAudioReady
    \/ QuerySize
    \/ QueryEmpty

ObserverSpec == ObserverInit /\ [][ObserverNext]_vars

\* ---------------------------------------------------------------- resolver
\* get_display_mode on its own: instances configured with automatic detection
\* and any source rate, target rate and target scan mode of the sets below, and
\* the call of get_display_mode on a picture of any scan mode.
Lower == "lower"
ResolverModes == {Progressive, Upper, Lower}
ResolverRates == {12, 23, 24, 25, 26, 27, 48, 50, 52, 54, 60, 100}
ResolverConfigs ==
    {[auto |-> TRUE, in_fps |-> i, fps |-> o, mode |-> m] :
        i \in ResolverRates, o \in ResolverRates, m \in ResolverModes}

ResolverInit == InitFrom(ResolverConfigs)

\* display_mode_ = get_display_mode(in_mode, in_fps_, format_desc_.mode, format_desc_.fps)
CallGetDisplayMode ==
    \E in_mode \in ResolverModes :
        /\ display_mode_' = get_display_mode(in_mode, in_fps_, format_desc_.mode,
                                             format_desc_.fps)
        /\ last' = [last EXCEPT !.resolved = TRUE, !.in_mode = in_mode]
        /\ UNCHANGED <<video_streams_, audio_streams_, frame_buffer_, audio_sample_count_,
                       video_frame_count_, filter_, video_discarded, audio_discarded,
                       real_admitted, pictures_pushed, samples_pushed, config>>

ResolverNext == CallGetDisplayMode

ResolverSpec == ResolverInit /\ [][ResolverNext]_vars

\* ==================================================================== claims
Frames == {frame_buffer_[i] : i \in 1..Len(frame_buffer_)}
Pumps == {last.pumps[i] : i \in 1..Len(last.pumps)}
IsPrefix(p, q) == Len(p) <= Len(q) /\ SubSeq(q, 1, Len(p)) = p
NoResets ==
    /\ Len(video_streams_) = 1 /\ Len(audio_streams_) = 1
    /\ video_discarded = 0 /\ audio_discarded = 0

\* C1: every frame in the output queue carries an audio block of exactly
\* samples-per-frame samples, whatever was pushed and under every display mode.
C1_AudioBlockLength == \A f \in Frames : Len(f.audio) = Spf

\* A composite frame emitted from a segment pair that followed a reset boundary.
C1_Witness ==
    \E f \in Frames : Len(f.pics) = 2 /\ f.pics[1].seg >= 1 /\ Len(f.audio) = Spf

\* C2: the number of video segments and the number of audio segments differ by
\* at most 1 in every reachable state.
C2_SegmentDepthDifference == Abs(Len(video_streams_) - Len(audio_streams_)) <= 1

\* C3: once a real picture has been admitted the display mode never changes and
\* the resolver is not run again.
C3_PolicyDecidedOnce ==
    [][real_admitted => (display_mode_' = display_mode_ /\ ~last'.resolved)]_vars

\* C4: after a push that pumped, it is not the case that both sides hold more than
\* one segment while either oldest segment is empty.
C4_AlignedAfterPump == last.pumps # <<>> => ~TruncateNeeded(Cur)

\* The oldest pair is closed (both sides hold a newer segment), neither oldest
\* segment is empty, so the pump does not drop the pair, and the pair holds too
\* little for the combiner of the display mode to emit a frame.
Stalled ==
    /\ Len(video_streams_) > 1 /\ Len(audio_streams_) > 1
    /\ Head(video_streams_) # <<>> /\ Head(audio_streams_) # <<>>
    /\ \/ Len(Head(audio_streams_)) < Spf
       \/ /\ display_mode_ \in {display_mode.half, display_mode.interlace,
                                 display_mode.deinterlace_bob_reinterlace}
          /\ Len(Head(video_streams_)) < 2
       \/ /\ display_mode_ = display_mode.duplicate
          /\ Len(Head(audio_streams_)) < 2 * Spf

\* No operation ever leaves a stalled state: pushes append to the newest segments
\* only, and the pump neither drops nor consumes a stalled pair.
StalledIsPermanent == [][Stalled => Stalled']_vars

\* C5: the muxer never stalls on a closed oldest pair with leftover data on both
\* sides: a pump discards such a pair, so that the new segment pair produces
\* frames. As stalling is permanent, a pump that returns in a stalled state
\* refutes it.
C5_TruncationRecoverable == last.pumps # <<>> => ~Stalled

\* C6: segments are discarded pairwise, and every frame in the output queue
\* combines pictures and samples of one and the same segment index.
C6_PairedSegments ==
    /\ video_discarded = audio_discarded
    /\ \A f \in Frames :
          \A i \in 1..Len(f.pics), j \in 1..Len(f.audio) : f.pics[i].seg = f.audio[j].seg

\* A frame emitted from the second segment pair, after the first pair was discarded.
C6_Witness ==
    /\ video_discarded >= 1
    /\ \E f \in Frames : f.pics[1].seg = 1 /\ f.audio[1].seg = 1

\* C7 as stated: a truncation warning is recorded only when both discarded
\* segments had leftover data.
C7_WarningOnlyWhenBothLeftover == \A p \in Pumps : p.warned => (p.vleft /\ p.aleft)

\* C7 amended: a truncation warning is recorded only when the pump discarded the
\* oldest pair and exactly one of the two discarded segments had leftover data.
C7_WarningOnlyWhenOneSideLeftover ==
    \A p \in Pumps : p.warned => (p.dropped /\ (p.vleft # p.aleft))

\* A pump that dropped a pair with leftover pictures and logged the warning.
C7_Witness == \E p \in Pumps : p.dropped /\ p.warned /\ p.vleft

\* C8: with automatic detection off, no pump reaches the dispatch with the
\* display mode invalid.
C8_NoInvalidDispatchWithoutAuto ==
    ~auto_mode_ => \A p \in Pumps : p.dispatched # display_mode.invalid

\* C9: a push whose pump reaches the dispatch with the display mode invalid
\* throws; it appends no frame and consumes nothing from the oldest segments
\* (the oldest segment of each side keeps what it held as a prefix).
C9_InvalidDispatchAborts ==
    [][(\E i \in 1..Len(last'.pumps) : last'.pumps[i].dispatched = display_mode.invalid)
        => /\ last'.thrown
           /\ frame_buffer_' = frame_buffer_
           /\ IsPrefix(video_streams_[1 + video_discarded' - video_discarded],
                       Head(video_streams_'))
           /\ IsPrefix(audio_streams_[1 + audio_discarded' - audio_discarded],
                       Head(audio_streams_'))]_vars

\* A push that threw with a picture and a frame's worth of samples buffered.
C9_Witness ==
    /\ last.thrown
    /\ \E p \in Pumps : p.dispatched = display_mode.invalid
    /\ Head(video_streams_) # <<>> /\ Len(Head(audio_streams_)) >= Spf

\* C10: under duplicate, with no reset pushed and nothing consumed so far, the
\* push that completes one picture and 2 x Spf samples finds the output queue
\* empty and leaves exactly two frames in it: the copy with the first Spf samples,
\* then the original with the next Spf samples, both of the one picture.
C10_DuplicateLaw ==
    [][(/\ display_mode_ = display_mode.duplicate
        /\ NoResets
        /\ video_frame_count_ = 1 /\ Len(Head(video_streams_)) = 1
        /\ Len(Head(audio_streams_)) = audio_sample_count_
        /\ audio_sample_count_ < 2 * Spf
        /\ audio_sample_count_' = 2 * Spf)
       => /\ frame_buffer_ = <<>>
          /\ frame_buffer_' =
                << OutputFrame(<<[seg |-> 0, n |-> 0]>>,
                               [i \in 1..Spf |-> [seg |-> 0, n |-> i - 1]], TRUE),
                   OutputFrame(<<[seg |-> 0, n |-> 0]>>,
                               [i \in 1..Spf |-> [seg |-> 0, n |-> Spf + i - 1]], FALSE) >>
          /\ Head(video_streams_') = <<>>
          /\ Head(audio_streams_') = <<>>]_vars

\* One picture and 2 x Spf samples pushed under duplicate, two frames queued.
C10_Witness ==
    /\ display_mode_ = display_mode.duplicate
    /\ NoResets
    /\ video_frame_count_ = 1 /\ audio_sample_count_ = 2 * Spf
    /\ Len(frame_buffer_) = 2

\* C11: under half, interlace and deinterlace_bob_reinterlace, with no reset
\* pushed and nothing consumed so far, the push that completes two pictures and
\* Spf samples finds the output queue empty and leaves exactly one frame in it,
\* carrying those samples: the first picture alone under half, the composite of
\* both pictures otherwise. Both pictures are gone from the oldest video segment.
C11_TwoPicturesLaw ==
    [][(/\ display_mode_ \in {display_mode.half, display_mode.interlace,
                               display_mode.deinterlace_bob_reinterlace}
        /\ NoResets
        /\ video_frame_count_ = 2 /\ Len(Head(video_streams_)) = 2
        /\ Len(Head(audio_streams_)) = audio_sample_count_
        /\ audio_sample_count_ < Spf
        /\ audio_sample_count_' = Spf)
       => /\ frame_buffer_ = <<>>
          /\ frame_buffer_' =
                << OutputFrame(IF display_mode_ = display_mode.half
                               THEN <<[seg |-> 0, n |-> 0]>>
                               ELSE <<[seg |-> 0, n |-> 0], [seg |-> 0, n |-> 1]>>,
                               [i \in 1..Spf |-> [seg |-> 0, n |-> i - 1]], FALSE) >>
          /\ Head(video_streams_') = <<>>
          /\ Head(audio_streams_') = <<>>]_vars

\* Two pictures and Spf samples pushed under half, one frame queued and the
\* oldest video segment empty.
C11_Witness ==
    /\ display_mode_ = display_mode.half
    /\ NoResets
    /\ video_frame_count_ = 2 /\ audio_sample_count_ = Spf
    /\ Len(frame_buffer_) = 1 /\ Head(video_streams_) = <<>>

\* The rule table of the cadence resolver. A rate matches another when they are
\* less than the tolerance apart; "source = 2 x target" compares half the source
\* rate with the target rate, "target = 2 x source" the source rate with half the
\* target rate (both sides doubled here, to stay in whole numbers).
RatesEqual(src, tgt) == Abs(src - tgt) < epsilon
SourceDouble(src, tgt) == Abs(src - 2 * tgt) < 2 * epsilon
TargetDouble(src, tgt) == Abs(2 * src - tgt) < 2 * epsilon

RuleTable(src, src_scan, tgt, tgt_scan) ==
    CASE RatesEqual(src, tgt) ->
            IF src_scan # Progressive /\ tgt_scan = Progressive
            THEN "deinterlace" ELSE "simple"
      [] SourceDouble(src, tgt) ->
            IF src_scan # Progressive THEN "invalid"
            ELSE IF tgt_scan # Progressive THEN "interlace" ELSE "half"
      [] TargetDouble(src, tgt) ->
            IF tgt_scan # Progressive THEN "invalid"
            ELSE IF src_scan # Progressive THEN "deinterlace_bob" ELSE "duplicate"
      [] OTHER -> "invalid"

\* C12: for every source and target rate and scan mode, get_display_mode returns
\* the policy of the one matching row of the rule table (at most one ratio bucket
\* matches), and invalid when no ratio matches.
C12_CadenceTable ==
    last.resolved =>
        /\ display_mode_ = RuleTable(in_fps_, last.in_mode, format_desc_.fps, format_desc_.mode)
        /\ Cardinality({b \in {"equal", "source_double", "target_double"} :
                \/ b = "equal" /\ RatesEqual(in_fps_, format_desc_.fps)
                \/ b = "source_double" /\ SourceDouble(in_fps_, format_desc_.fps)
                \/ b = "target_double" /\ TargetDouble(in_fps_, format_desc_.fps)}) <= 1

\* A source rate within tolerance of twice the target rate, progressive source,
\* interlaced target: interlace.
C12_Witness ==
    /\ last.resolved /\ last.in_mode = Progressive
    /\ in_fps_ = 52 /\ format_desc_.fps = 25 /\ format_desc_.mode = Lower
    /\ display_mode_ = display_mode.interlace

\* C13: with automatic detection on and source and target rates equal within
\* tolerance, the display mode assigned on a real picture is
\* deinterlace_bob_reinterlace when the picture and the target are both
\* non-progressive and the picture's height differs from the target's, and simple
\* when the picture is progressive, or both are non-progressive with equal height.
C13_RescaleOverride ==
    (auto_mode_ /\ last.resolved /\ RatesEqual(in_fps_, format_desc_.fps)) =>
        /\ (last.in_mode # Progressive /\ format_desc_.mode # Progressive
            /\ last.height # format_desc_.height)
           => display_mode_ = display_mode.deinterlace_bob_reinterlace
        /\ (\/ last.in_mode = Progressive
            \/ (format_desc_.mode # Progressive /\ last.height = format_desc_.height))
           => display_mode_ = display_mode.simple

\* An interlaced picture of another height than the interlaced target, equal rates.
C13_Witness ==
    /\ auto_mode_ /\ last.resolved /\ RatesEqual(in_fps_, format_desc_.fps)
    /\ last.in_mode # Progressive /\ format_desc_.mode # Progressive
    /\ last.height # format_desc_.height
    /\ display_mode_ = display_mode.deinterlace_bob_reinterlace

\* C14 (as claimed): audio_ready() answers true exactly when the newest audio
\* segment holds more samples than one frame's worth and there are at least as
\* many audio segments as video segments.
C14_AudioReadyMoreThanOneFramesWorth ==
    last.query = "audio_ready" =>
        (last.result <=> (/\ Len(Back(audio_streams_)) > Spf
                          /\ Len(audio_streams_) >= Len(video_streams_)))

\* C14 (amended): audio_ready() answers true exactly when the newest audio
\* segment holds at least two whole frames' worth of samples and there are at
\* least as many audio segments as video segments.
C14_AudioReadyTwoWholeChunks ==
    last.query = "audio_ready" =>
        (last.result <=> (/\ Len(Back(audio_streams_)) >= 2 * Spf
                          /\ Len(audio_streams_) >= Len(video_streams_)))

\* audio_ready() answered true with exactly two frames' worth in the newest segment.
C14_Witness ==
    /\ last.query = "audio_ready"
    /\ last.result
    /\ Len(Back(audio_streams_)) = 2 * Spf
    /\ Len(audio_streams_) = Len(video_streams_)

\* C15: pop() on a non-empty output queue removes and returns the oldest frame,
\* so the queue shrinks by one from the front; every other step only appends to
\* the queue, so frames leave in the order the combiners appended them; pop
\* changes neither the video segments, nor the audio segments, nor the display mode.
C15_PopIsFifo ==
    [][IF Len(frame_buffer_') < Len(frame_buffer_)
       THEN /\ last'.returned = Head(frame_buffer_)
            /\ frame_buffer_' = Tail(frame_buffer_)
            /\ Len(frame_buffer_') = Len(frame_buffer_) - 1
            /\ UNCHANGED <<video_streams_, audio_streams_, display_mode_>>
       ELSE /\ IsPrefix(frame_buffer_, frame_buffer_')
            /\ last'.returned = NoFrame]_vars

\* A pop returned the older of two different queued frames and left the newer.
C15_Witness ==
    /\ last.returned # NoFrame
    /\ frame_buffer_ # <<>>
    /\ Head(frame_buffer_) # last.returned
    /\ Head(frame_buffer_).audio # <<>>
    /\ last.returned.audio # <<>>
    /\ Head(frame_buffer_).audio[1].seg = last.returned.audio[1].seg
    /\ Head(frame_buffer_).audio[1].n = last.returned.audio[1].n + Spf

\* C16: video_ready(), audio_ready(), size() and empty() change no muxer state
\* (segments, output queue, display mode, filter, counters), and a readiness
\* query repeated with no other call in between gives the same answer again.
C16_QueriesArePureObservers ==
    [][last'.query # "none" =>
         /\ UNCHANGED <<video_streams_, audio_streams_, frame_buffer_, display_mode_,
                        filter_, audio_sample_count_, video_frame_count_,
                        video_discarded, audio_discarded, config>>
         /\ (last.query = last'.query =>
                 last'.result = last.result /\ last'.count = last.count)]_vars

\* audio_ready() answered true while a pump could still emit a frame.
C16_Witness ==
    /\ last.query = "audio_ready"
    /\ last.result
    /\ Head(video_streams_) # <<>>
    /\ Len(Head(audio_streams_)) >= Spf

\* The minimum of the combiner selected by a display mode is not met by vq
\* pictures and aq samples in the oldest segment pair.
RequirementUnmet(mode, vq, aq) ==
    CASE mode \in {display_mode.simple, display_mode.deinterlace,
                   display_mode.deinterlace_bob} -> ~(vq >= 1 /\ aq >= Spf)
      [] mode = display_mode.duplicate -> ~(vq >= 1 /\ aq >= 2 * Spf)
      [] mode \in {display_mode.half, display_mode.interlace,
                   display_mode.deinterlace_bob_reinterlace} -> ~(vq >= 2 /\ aq >= Spf)
      [] OTHER -> FALSE

\* C17: a pump that finds the minimum of the selected combiner unmet in the
\* oldest segment pair appends nothing to the output queue and removes no
\* picture and no sample from the oldest segments.
C17_BackpressureIsNoOp ==
    \A p \in Pumps :
        RequirementUnmet(display_mode_, p.vq, p.aq) =>
            p.emitted = 0 /\ p.vpopped = 0 /\ p.apopped = 0

\* A pump passed the backpressure check and its combiner still had too little:
\* one picture under a two-picture combiner.
C17_Witness ==
    \E p \in Pumps :
        /\ p.dispatched \in {display_mode.half, display_mode.interlace,
                             display_mode.deinterlace_bob_reinterlace}
        /\ p.vq = 1 /\ p.aq >= Spf
        /\ p.emitted = 0

\* C18: after every sequence of pushes and pops on a non-empty queue both
\* segment lists hold at least one segment, no pop_video was reached with an
\* empty oldest video segment, and no pop_audio was reached with fewer samples
\* than one frame's worth in the oldest audio segment, the second pop_audio of
\* duplicate included.
C18_GuardedPumpPreconditions ==
    /\ Len(video_streams_) >= 1
    /\ Len(audio_streams_) >= 1
    /\ ~last.ub
    /\ ~last.verify_failed

\* duplicate ran both of its pop_audio calls on exactly two frames' worth.
C18_Witness ==
    \E p \in Pumps :
        /\ p.dispatched = display_mode.duplicate
        /\ p.aq = 2 * Spf
        /\ p.apopped = 2 * Spf
        /\ p.emitted = 2
        /\ ~last.verify_failed

\* A run of samples of one segment in push order, with no gap and no repeat.
Consecutive(q) ==
    \A j \in 1..Len(q) : q[j] = [seg |-> q[1].seg, n |-> q[1].n + j - 1]

\* The samples the given frames carry from audio segment g, in emission order.
RECURSIVE Consumed(_, _)
Consumed(frames, g) ==
    IF frames = <<>>
    THEN <<>>
    ELSE (IF Head(frames).audio # <<>> /\ Head(frames).audio[1].seg = g
          THEN Head(frames).audio
          ELSE <<>>) \o Consumed(Tail(frames), g)

\* Every buffered segment is a run of consecutive samples of that segment, which
\* starts at a whole number of frames; a segment that was never the oldest still
\* starts at its first sample; the newest segment ends at the last sample pushed;
\* every queued frame carries the samples
\* [k * Spf, (k + 1) * Spf) of one segment, for some k.
AudioRuns ==
    /\ \A i \in 1..Len(audio_streams_) :
          audio_streams_[i] # <<>> =>
              /\ Consecutive(audio_streams_[i])
              /\ audio_streams_[i][1].seg = audio_discarded + i - 1
              /\ audio_streams_[i][1].n % Spf = 0
              /\ i > 1 => audio_streams_[i][1].n = 0
    /\ Back(audio_streams_) # <<>> =>
          Back(Back(audio_streams_)).n = audio_sample_count_ - 1
    /\ \A f \in Frames :
          /\ Len(f.audio) = Spf
          /\ Consecutive(f.audio)
          /\ f.audio[1].n % Spf = 0

\* A step that appends frames: for every segment buffered before the step, the
\* samples the new frames carry from it, followed by what the step leaves of it,
\* begin with exactly what was buffered (the rest is what the step pushed); of a
\* segment the step dropped, the new frames carry a leading part only.
AudioConserved ==
    Len(frame_buffer_') >= Len(frame_buffer_) =>
        LET new == SubSeq(frame_buffer_', Len(frame_buffer_) + 1, Len(frame_buffer_'))
        IN  /\ \A i \in 1..Len(audio_streams_) :
                  LET g == audio_discarded + i - 1
                  IN  IF g >= audio_discarded'
                      THEN IsPrefix(audio_streams_[i],
                                    Consumed(new, g) \o audio_streams_'[g - audio_discarded' + 1])
                      ELSE IsPrefix(Consumed(new, g), audio_streams_[i])
            /\ \A k \in 1..Len(new) :
                  \E i \in 1..Len(audio_streams_) :
                      new[k].audio[1].seg = audio_discarded + i - 1

\* C19: under every display mode the k-th frame emitted from a segment pair
\* carries the samples [k * Spf, (k + 1) * Spf) of that audio segment in push
\* order, however the samples were split into chunks; inside a segment no sample
\* is repeated, reordered or skipped, and samples leave the buffers without
\* being emitted only when the pump drops a whole oldest segment.
C19_AudioContinuity == []AudioRuns /\ [][AudioConserved]_vars

\* The second frame of a segment was emitted after the first, and a pump
\* emitted while it found more than one frame's worth of samples buffered.
C19_Witness ==
    /\ Len(frame_buffer_) >= 2
    /\ frame_buffer_[1].audio[1].n = 0
    /\ frame_buffer_[2].audio[1].n = Spf
    /\ frame_buffer_[1].audio[1].seg = frame_buffer_[2].audio[1].seg
    /\ \E p \in Pumps : p.emitted >= 1 /\ p.aq > Spf

\* The most frames one invocation of the combiner of a display mode appends.
FramesPerPump(mode) == IF mode = display_mode.duplicate THEN 2 ELSE 1

\* C20: each pump invokes the selected combiner at most once. A push of a
\* sample chunk or of one picture pumps once and appends at most 1 frame to the
\* output queue (at most 2 under duplicate), a reset-marker push pumps not at
\* all and appends none, and no push appends more than its pumps allow, however
\* much the oldest segment pair holds.
C20_OneCombinerCallPerPump ==
    [][LET grown == Len(frame_buffer_') - Len(frame_buffer_)
           most == FramesPerPump(display_mode_')
       IN  /\ \A i \in 1..Len(last'.pumps) : last'.pumps[i].emitted <= most
           /\ grown <= Len(last'.pumps) * most
           /\ (samples_pushed' > samples_pushed \/ pictures_pushed' = pictures_pushed + 1)
              => Len(last'.pumps) = 1 /\ grown <= most
           /\ (\/ video_discarded' + Len(video_streams_') > video_discarded + Len(video_streams_)
               \/ audio_discarded' + Len(audio_streams_') > audio_discarded + Len(audio_streams_))
              => last'.pumps = <<>> /\ grown = 0]_vars

\* One pump appended one frame and left a picture and a frame's worth of
\* samples in the oldest segment pair, enough for the next frame.
C20_Witness ==
    /\ Len(last.pumps) = 1
    /\ last.pumps[1].dispatched = display_mode.simple
    /\ last.pumps[1].emitted = 1
    /\ Head(video_streams_) # <<>>
    /\ Len(Head(audio_streams_)) >= Spf

====
